---- MODULE Spec2Model ----
(***************************************************************************)
(* Model of salt/states/npm.py: the three state functions installed,       *)
(* removed and bootstrap, each one atomic action over an environment that  *)
(* holds the installed-package records.  The execution-module functions    *)
(* npm.list, npm.install and npm.uninstall are external: what they return  *)
(* or raise is drawn nondeterministically at each call.                    *)
(*                                                                         *)
(* Python strings are sequences of one-character strings, so partition,    *)
(* strip and lower are computed as the code computes them.  The arguments  *)
(* dir, user, registry and env are forwarded untouched to the capability   *)
(* layer and decide nothing in this file; they are not modelled.           *)
(***************************************************************************)
EXTENDS Integers, Sequences, FiniteSets, TLC

VARIABLES records, op, args, ret, fault, calls, locals

vars == <<records, op, args, ret, fault, calls, locals>>

\* Longest pkgs list drawn as an argument of installed.
MaxPkgs == 2

-----------------------------------------------------------------------------
(* Python string primitives *)

LowerChar(c) == IF c = "A" THEN "a" ELSE IF c = "B" THEN "b" ELSE c

\* str.lower()
Lower(s) == [i \in 1..Len(s) |-> LowerChar(s[i])]

\* the characters str.strip() removes
IsSpace(c) == c \in {" ", "\t", "\n", "\r"}

RECURSIVE LStrip(_)
LStrip(s) == IF s # <<>> /\ IsSpace(Head(s)) THEN LStrip(Tail(s)) ELSE s

RECURSIVE RStrip(_)
RStrip(s) ==
    IF s # <<>> /\ IsSpace(s[Len(s)]) THEN RStrip(SubSeq(s, 1, Len(s) - 1)) ELSE s

\* str.strip()
Strip(s) == RStrip(LStrip(s))

\* index of the first occurrence of character c in s, 0 when there is none
Find(s, c) ==
    IF \E i \in 1..Len(s) : s[i] = c
    THEN CHOOSE i \in 1..Len(s) : s[i] = c /\ \A j \in 1..(i - 1) : s[j] # c
    ELSE 0

\* str.partition('@'): <<head, separator, tail>>
Partition(s) ==
    LET i == Find(s, "@")
    IN  IF i = 0 THEN <<s, <<>>, <<>>>>
        ELSE <<SubSeq(s, 1, i - 1), <<"@">>, SubSeq(s, i + 1, Len(s))>>

\* '{0}@{1}'.format(a, b)
FormatNameVer(a, b) == a \o <<"@">> \o b

-----------------------------------------------------------------------------
(* Values *)

\* pkgs=None or pkgs=<list>
NoPkgs == [is_none |-> TRUE, val |-> <<>>]
SomePkgs(l) == [is_none |-> FALSE, val |-> l]

Errors == {"CommandNotFoundError", "CommandExecutionError"}

\* What a capability may hand back: a Python value by type and size
\* (bool: n = 1 is True, n = 0 is False).
PyValues ==
    { [t |-> "list", n |-> 0], [t |-> "list", n |-> 1],
      [t |-> "dict", n |-> 0], [t |-> "dict", n |-> 1],
      [t |-> "str",  n |-> 1], [t |-> "bool", n |-> 1],
      [t |-> "NoneType", n |-> 0] }

PyNone == [t |-> "NoneType", n |-> 0]

\* Python truth value
Truthy(v) == v.n > 0

IsInstance(v, t) == v.t = t

\* outcome of one capability call: it returns a value or raises
Returns(v) == [raised |-> "none", value |-> v]
Raises(e) == [raised |-> e, value |-> PyNone]
NotCalled == [raised |-> "not called", value |-> PyNone]

Outcomes == {Returns(v) : v \in PyValues} \cup {Raises(e) : e \in Errors}

\* npm.uninstall is used for its truth value only
UninstallOutcomes ==
    {Returns([t |-> "bool", n |-> 1]), Returns([t |-> "bool", n |-> 0])}
        \cup {Raises(e) : e \in Errors}


EmptyChanges == [shape |-> "{}", new |-> <<>>, key |-> <<>>, action |-> ""]
InstallChanges(new) == [shape |-> "old/new", new |-> new, key |-> <<>>, action |-> ""]
ActionChanges(k, a) == [shape |-> "name", new |-> <<>>, key |-> k, action |-> a]

\* ret = {'name': name, 'result': None, 'comment': '', 'changes': {}}
NewRet(name) ==
    [name |-> name, result |-> "None", comment |-> <<>>, changes |-> EmptyChanges]

NoLocals ==
    [listed |-> {}, pkg_list |-> <<>>, pkgs_to_install |-> <<>>,
     pkgs_satisfied |-> <<>>]

ListCall(out) == [fn |-> "npm.list", kw |-> "", pkg |-> <<>>, pkgs |-> <<>>, out |-> out]

InstallCall(kw, pkg, pkgs, out) ==
    [fn |-> "npm.install", kw |-> kw, pkg |-> pkg, pkgs |-> pkgs, out |-> out]

UninstallCall(pkg, out) ==
    [fn |-> "npm.uninstall", kw |-> "pkg", pkg |-> pkg, pkgs |-> <<>>, out |-> out]

-----------------------------------------------------------------------------
(* The installed-package records: a dict, as the set of its items.  npm     *)
(* does not keep two packages whose names differ only by case, so no two    *)
(* keys of a listing are equal after lower-casing.                          *)

HasKey(d, k) == \E r \in d : r.name = k

\* d[k]['version']
VersionOf(d, k) == (CHOOSE r \in d : r.name = k).version

\* dict((p.lower(), info) for p, info in list(installed_pkgs.items()))
LowerKeys(d) == {[name |-> Lower(r.name), version |-> r.version] : r \in d}

-----------------------------------------------------------------------------
(* installed *)

\* pkg_list = pkgs if pkgs is not None else [name]
PkgList(name, pkgs) == IF pkgs.is_none THEN <<name>> ELSE pkgs.val

\* pkg_name, _, pkg_ver = pkg.partition('@'); pkg_name = pkg_name.strip().lower()
PkgName(pkg) == Lower(Strip(Partition(pkg)[1]))
PkgVer(pkg) == Partition(pkg)[3]

\* NeedsInstall looking the name up as written, without lower-casing it
NeedsInstallCaseSensitive(pkg, installed_pkgs, force_reinstall) ==
    LET nm == Strip(Partition(pkg)[1])
    IN  IF force_reinstall THEN TRUE
        ELSE IF ~HasKey(installed_pkgs, nm) THEN TRUE
        ELSE IF PkgVer(pkg) # <<>>
             THEN VersionOf(installed_pkgs, nm) # PkgVer(pkg)
             ELSE FALSE

\* NeedsInstall without the comparison of versions
NeedsInstallIgnoresVersion(pkg, installed_pkgs, force_reinstall) ==
    IF force_reinstall THEN TRUE
    ELSE ~HasKey(installed_pkgs, PkgName(pkg))

\* One pass of the loop body: TRUE when pkg is appended to pkgs_to_install,
\* FALSE when an entry is appended to pkgs_satisfied.
NeedsInstall(pkg, installed_pkgs, force_reinstall) ==
    IF force_reinstall THEN TRUE
    ELSE IF ~HasKey(installed_pkgs, PkgName(pkg)) THEN TRUE
    ELSE IF PkgVer(pkg) # <<>>
         THEN VersionOf(installed_pkgs, PkgName(pkg)) # PkgVer(pkg)
         ELSE FALSE

\* installed_name_ver = '{0}@{1}'.format(pkg_name, installed_pkgs[pkg_name]['version'])
InstalledNameVer(pkg, installed_pkgs) ==
    FormatNameVer(PkgName(pkg), VersionOf(installed_pkgs, PkgName(pkg)))

\* The loop over pkg_list: the two lists it builds.
RECURSIVE Classify(_, _, _)
Classify(pkg_list, installed_pkgs, force_reinstall) ==
    IF pkg_list = <<>> THEN [pkgs_to_install |-> <<>>, pkgs_satisfied |-> <<>>]
    ELSE LET pkg == Head(pkg_list)
             rest == Classify(Tail(pkg_list), installed_pkgs, force_reinstall)
         IN  IF NeedsInstall(pkg, installed_pkgs, force_reinstall)
             THEN [rest EXCEPT !.pkgs_to_install = <<pkg>> \o @]
             ELSE [rest EXCEPT
                     !.pkgs_satisfied = <<InstalledNameVer(pkg, installed_pkgs)>> \o @]

\* cmd_args: 'pkgs': pkgs when pkgs was given, else 'pkg': pkg_name, the
\* loop variable as the last iteration left it
InstallKwargs(name, pkgs) ==
    IF ~pkgs.is_none
    THEN [kw |-> "pkgs", pkg |-> <<>>, pkgs |-> pkgs.val]
    ELSE [kw |-> "pkg", pkg |-> PkgName(PkgList(name, pkgs)[Len(PkgList(name, pkgs))]),
          pkgs |-> <<>>]

\* InstallSucceeded without the isinstance tests
InstallSucceededAnyTruthy(call) == Truthy(call)

\* if call and (isinstance(call, list) or isinstance(call, dict))
InstallSucceeded(call) ==
    Truthy(call) /\ (IsInstance(call, "list") \/ IsInstance(call, "dict"))

-----------------------------------------------------------------------------
(* The environment behind the capabilities *)

Versions == {<<"1">>, <<"2">>}

\* npm install <spec>: the package is present afterwards under the name asked
\* for, at the version asked for, or at version any when none was asked for.
InstallOne(recs, spec, any) ==
    LET nm == Strip(Partition(spec)[1])
        v  == IF Partition(spec)[3] = <<>> THEN any ELSE Partition(spec)[3]
    IN  {r \in recs : Lower(r.name) # Lower(nm)} \cup {[name |-> nm, version |-> v]}

RECURSIVE InstallAll(_, _, _)
InstallAll(recs, specs, any) ==
    IF specs = <<>> THEN recs
    ELSE InstallAll(InstallOne(recs, Head(specs), any), Tail(specs), any)

\* What npm.install leaves in the listing: nothing changes when it raises or
\* returns a falsy value (no-op); pkg=None installs a directory's manifest,
\* which is no package of the listing.
NpmInstallEffect(recs, kwargs, out, any) ==
    IF out.raised # "none" \/ ~Truthy(out.value) THEN recs
    ELSE IF kwargs.kw = "pkgs" THEN InstallAll(recs, kwargs.pkgs, any)
    ELSE IF kwargs.kw = "pkg" THEN InstallOne(recs, kwargs.pkg, any)
    ELSE recs

\* What npm.uninstall leaves in the listing.
NpmUninstallEffect(recs, pkg, out) ==
    IF out.raised # "none" \/ ~Truthy(out.value) THEN recs
    ELSE {r \in recs : r.name # pkg}

-----------------------------------------------------------------------------
(* The three state functions.  Each takes its arguments, the dry-run flag   *)
(* __opts__['test'], the records the environment holds and the outcome of   *)
(* each capability call it may reach, and gives what it returns (ret), the  *)
(* exception that leaves it uncaught (fault), the capability calls it made   *)
(* in order, its locals, and the records the environment holds afterwards.  *)

\* InstallResult with changes assigned before the test of call
InstallResultKeepsChanges(ret0, call, pkgs_to_install) ==
    IF InstallSucceeded(call)
    THEN [ret0 EXCEPT !.result = "True",
                      !.changes = InstallChanges(pkgs_to_install),
                      !.comment = <<"successfully installed">>]
    ELSE [ret0 EXCEPT !.result = "False",
                      !.changes = InstallChanges(pkgs_to_install),
                      !.comment = <<"Could not install package(s)">>]

\* the record returned once npm.install has returned call
InstallResult(ret0, call, pkgs_to_install) ==
    IF InstallSucceeded(call)
    THEN [ret0 EXCEPT !.result = "True",
                      !.changes = InstallChanges(pkgs_to_install),
                      !.comment = <<"successfully installed">>]
    ELSE [ret0 EXCEPT !.result = "False",
                      !.comment = <<"Could not install package(s)">>]

\* installed from the else branch of the listing's try on; lcall is the
\* listing call that gave recs
InstalledAfterList(name, pkgs, force_reinstall, test, recs, lcall, install_out, any) ==
    LET ret0 == NewRet(name)
        pkg_list == PkgList(name, pkgs)
        installed_pkgs == LowerKeys(recs)
        c == Classify(pkg_list, installed_pkgs, force_reinstall)
        loc == [listed |-> recs, pkg_list |-> pkg_list,
                pkgs_to_install |-> c.pkgs_to_install,
                pkgs_satisfied |-> c.pkgs_satisfied]
        kwargs == InstallKwargs(name, pkgs)
        icall == InstallCall(kwargs.kw, kwargs.pkg, kwargs.pkgs, install_out)
    IN  IF test
        THEN [ret |-> [ret0 EXCEPT
                  !.result = "None",
                  !.changes = IF c.pkgs_to_install # <<>>
                              THEN InstallChanges(c.pkgs_to_install) ELSE @,
                  !.comment =
                      (IF c.pkgs_to_install # <<>>
                       THEN <<"are set to be installed">> ELSE <<>>)
                      \o (IF c.pkgs_satisfied # <<>>
                          THEN <<"satisfied by">> ELSE <<>>)],
              fault |-> "none", calls |-> <<lcall>>,
              locals |-> loc, records |-> recs]
        ELSE IF c.pkgs_to_install = <<>>
        THEN [ret |-> [ret0 EXCEPT !.result = "True",
                                   !.comment = <<"satisfied by">>],
              fault |-> "none", calls |-> <<lcall>>,
              locals |-> loc, records |-> recs]
        ELSE IF install_out.raised # "none"
        THEN [ret |-> [ret0 EXCEPT
                  !.result = "False",
                  !.comment = <<"Error installing", install_out.raised>>],
              fault |-> "none", calls |-> <<lcall, icall>>,
              locals |-> loc, records |-> recs]
        ELSE [ret |-> InstallResult(ret0, install_out.value, c.pkgs_to_install),
              fault |-> "none", calls |-> <<lcall, icall>>,
              locals |-> loc,
              records |-> NpmInstallEffect(recs, kwargs, install_out, any)]

\* InstalledRun going on with no records when the listing raises
InstalledRunListErrorIgnored(name, pkgs, force_reinstall, test, recs, list_out, install_out, any) ==
    InstalledAfterList(name, pkgs, force_reinstall, test,
                       IF list_out.raised # "none" THEN {} ELSE recs,
                       ListCall(list_out), install_out, any)

InstalledRun(name, pkgs, force_reinstall, test, recs, list_out, install_out, any) ==
    IF list_out.raised # "none"
    THEN [ret |-> [NewRet(name) EXCEPT
                     !.result = "False",
                     !.comment = <<"Error looking up", list_out.raised>>],
          fault |-> "none",
          calls |-> <<ListCall(list_out)>>,
          locals |-> [NoLocals EXCEPT !.pkg_list = PkgList(name, pkgs)],
          records |-> recs]
    ELSE InstalledAfterList(name, pkgs, force_reinstall, test, recs,
                            ListCall(list_out), install_out, any)

\* NotInstalled comparing names without regard to case
NotInstalledIgnoringCase(name, installed_pkgs) ==
    ~HasKey(LowerKeys(installed_pkgs), Lower(name))

\* if name not in installed_pkgs
NotInstalled(name, installed_pkgs) == ~HasKey(installed_pkgs, name)

RemovedRun(name, test, recs, list_out, uninstall_out) ==
    LET ret0 == NewRet(name)
    IN  IF list_out.raised # "none"
        THEN [ret |-> [ret0 EXCEPT !.result = "False",
                                   !.comment = <<"Error uninstalling", list_out.raised>>],
              fault |-> "none", calls |-> <<ListCall(list_out)>>,
              locals |-> NoLocals, records |-> recs]
        ELSE
        LET loc == [NoLocals EXCEPT !.listed = recs]
            ucall == UninstallCall(name, uninstall_out)
        IN  IF NotInstalled(name, recs)
            THEN [ret |-> [ret0 EXCEPT !.result = "True",
                                       !.comment = <<"is not installed">>],
                  fault |-> "none", calls |-> <<ListCall(list_out)>>,
                  locals |-> loc, records |-> recs]
            ELSE IF test
            THEN [ret |-> [ret0 EXCEPT !.result = "None",
                                       !.comment = <<"is set to be removed">>],
                  fault |-> "none", calls |-> <<ListCall(list_out)>>,
                  locals |-> loc, records |-> recs]
            ELSE IF uninstall_out.raised # "none"
            \* no try around npm.uninstall: the exception leaves removed
            THEN [ret |-> ret0, fault |-> uninstall_out.raised,
                  calls |-> <<ListCall(list_out), ucall>>,
                  locals |-> loc, records |-> recs]
            ELSE [ret |-> IF Truthy(uninstall_out.value)
                          THEN [ret0 EXCEPT
                                  !.result = "True",
                                  !.changes = ActionChanges(name, "Removed"),
                                  !.comment = <<"was successfully removed">>]
                          ELSE [ret0 EXCEPT
                                  !.result = "False",
                                  !.comment = <<"Error removing package">>],
                  fault |-> "none", calls |-> <<ListCall(list_out), ucall>>,
                  locals |-> loc,
                  records |-> NpmUninstallEffect(recs, name, uninstall_out)]

\* bootstrap reads no dry-run flag: test is an argument it does not use
BootstrapRun(name, test, recs, install_out) ==
    LET ret0 == NewRet(name)
        icall == InstallCall("pkg=None", <<>>, <<>>, install_out)
    IN  IF install_out.raised # "none"
        THEN [ret |-> [ret0 EXCEPT
                  !.result = "False",
                  !.comment = <<"Error Bootstrapping", install_out.raised>>],
              fault |-> "none", calls |-> <<icall>>,
              locals |-> NoLocals, records |-> recs]
        ELSE IF ~Truthy(install_out.value)
        THEN [ret |-> [ret0 EXCEPT
                  !.result = "True",
                  !.comment = <<"Directory is already bootstrapped">>],
              fault |-> "none", calls |-> <<icall>>,
              locals |-> NoLocals, records |-> recs]
        ELSE [ret |-> IF IsInstance(install_out.value, "str")
                      THEN [ret0 EXCEPT
                              !.result = "False",
                              !.comment = <<"Could not bootstrap directory">>]
                      ELSE [ret0 EXCEPT
                              !.result = "True",
                              !.changes = ActionChanges(name, "Bootstrapped"),
                              !.comment = <<"Directory was successfully bootstrapped">>],
              fault |-> "none", calls |-> <<icall>>,
              locals |-> NoLocals, records |-> recs]

-----------------------------------------------------------------------------
(* Arguments and initial environments *)

\* declared specs given as name: plain, upper case with a version, another
\* version, padded with a blank
NameArgs ==
    { <<"a">>, <<"A", "@", "1">>, <<"a", "@", "2">>, <<" ", "a">> }

\* specs that make up a pkgs list
PkgSpecs == { <<"A", "@", "1">>, <<"b", "@", "1">> }

PkgLists == UNION {[1..n -> PkgSpecs] : n \in 0..MaxPkgs}

\* the state id used as name when pkgs is given
StateId == <<"b">>

InstalledArgs ==
    {[name |-> n, pkgs |-> NoPkgs] : n \in NameArgs}
        \cup {[name |-> StateId, pkgs |-> SomePkgs(l)] : l \in PkgLists}

RemovedNames == { <<"a">>, <<"A">>, <<"b">> }

BootstrapDirs == { <<"/", "p">> }

ListingKeys == { <<"a">>, <<"A">>, <<"b">> }

\* package b is only ever asked for, and so only ever present, at version 1
AllRecords ==
    {r \in {[name |-> k, version |-> v] : k \in ListingKeys, v \in Versions} :
        r.name = <<"b">> => r.version = <<"1">>}

\* npm.list returns the records the environment holds, or raises
ListOutcomes(recs) ==
    {Returns([t |-> "dict", n |-> Cardinality(recs)])} \cup {Raises(e) : e \in Errors}

InitialRecords ==
    {d \in SUBSET AllRecords :
        \A r1, r2 \in d : Lower(r1.name) = Lower(r2.name) => r1 = r2}

NoArgs == [name |-> <<>>, pkgs |-> NoPkgs, force_reinstall |-> FALSE, test |-> FALSE]

Init ==
    /\ records \in InitialRecords
    /\ op = "init"
    /\ args = NoArgs
    /\ ret = NewRet(<<>>)
    /\ fault = "none"
    /\ calls = <<>>
    /\ locals = NoLocals

Finish(r) ==
    /\ ret' = r.ret
    /\ fault' = r.fault
    /\ calls' = r.calls
    /\ locals' = r.locals
    /\ records' = r.records

\* the versions the environment may pick for a version-less request
AnyVersions(kwargs, out) ==
    IF /\ out.raised = "none" /\ Truthy(out.value)
       /\ \/ kwargs.kw = "pkg" /\ PkgVer(kwargs.pkg) = <<>>
          \/ \E i \in 1..Len(kwargs.pkgs) : PkgVer(kwargs.pkgs[i]) = <<>>
    THEN Versions ELSE {<<"1">>}

Installed ==
    \E a \in InstalledArgs, force_reinstall \in BOOLEAN, test \in BOOLEAN,
       list_out \in ListOutcomes(records) :
      LET reached == Len(InstalledRun(a.name, a.pkgs, force_reinstall, test,
                                      records, list_out, NotCalled, <<"1">>).calls) = 2
      IN  \E install_out \in IF reached THEN Outcomes ELSE {NotCalled} :
          \E any \in AnyVersions(InstallKwargs(a.name, a.pkgs), install_out) :
            /\ op' = "installed"
            /\ args' = [name |-> a.name, pkgs |-> a.pkgs,
                        force_reinstall |-> force_reinstall, test |-> test]
            /\ Finish(InstalledRun(a.name, a.pkgs, force_reinstall, test,
                                   records, list_out, install_out, any))

Removed ==
    \E name \in RemovedNames, test \in BOOLEAN, list_out \in ListOutcomes(records) :
      LET reached == Len(RemovedRun(name, test, records, list_out, NotCalled).calls) = 2
      IN  \E uninstall_out \in IF reached THEN UninstallOutcomes ELSE {NotCalled} :
            /\ op' = "removed"
            /\ args' = [NoArgs EXCEPT !.name = name, !.test = test]
            /\ Finish(RemovedRun(name, test, records, list_out, uninstall_out))

Bootstrap ==
    \E name \in BootstrapDirs, test \in BOOLEAN, install_out \in Outcomes :
        /\ op' = "bootstrap"
        /\ args' = [NoArgs EXCEPT !.name = name, !.test = test]
        /\ Finish(BootstrapRun(name, test, records, install_out))

Next == Installed \/ Removed \/ Bootstrap

Spec == Init /\ [][Next]_vars

-----------------------------------------------------------------------------
(* Properties *)

IsMutating(call) == call.fn \in {"npm.install", "npm.uninstall"}

MutatingCalls == {i \in 1..Len(calls) : IsMutating(calls[i])}

InstallCalls == {i \in 1..Len(calls) : calls[i].fn = "npm.install"}

Invoked == op \in {"installed", "removed", "bootstrap"}

\* the first capability call was npm.list and it returned
ListingSucceeded ==
    /\ calls # <<>>
    /\ calls[1].fn = "npm.list"
    /\ calls[1].out.raised = "none"

\* the name and the version a spec declares
DeclaredName(spec) == Lower(Strip(Partition(spec)[1]))
DeclaredVersion(spec) == Partition(spec)[3]

\* spec is installed, at the version it declares if it declares one
AlreadyInstalled(spec, listed) ==
    \E r \in listed :
        /\ Lower(r.name) = DeclaredName(spec)
        /\ DeclaredVersion(spec) # <<>> => r.version = DeclaredVersion(spec)

\* a change is pending: something is to be installed, the package to remove
\* is present, or the record returned reports a change
WouldChange ==
    \/ op = "installed" /\ ListingSucceeded /\ locals.pkgs_to_install # <<>>
    \/ op = "removed" /\ ListingSucceeded /\ \E r \in locals.listed : r.name = args.name
    \/ ret.changes # EmptyChanges

\* C1: under dry-run none of installed, removed and bootstrap invokes
\* npm.install or npm.uninstall, and the result is null whenever a change
\* would occur.
C1_DryRunNeverMutates ==
    (Invoked /\ args.test) =>
        /\ MutatingCalls = {}
        /\ (fault = "none" /\ WouldChange) => ret.result = "None"

\* C2: a CommandNotFoundError or CommandExecutionError raised by any capability
\* call is caught and returned as a record with result False; none leaves the
\* state function.
C2_FailuresCaught ==
    (Invoked /\ \E i \in 1..Len(calls) : calls[i].out.raised \in Errors) =>
        /\ fault = "none"
        /\ ret.result = "False"

C3_Case ==
    /\ op = "installed"
    /\ ~args.force_reinstall
    /\ ListingSucceeded
    /\ \A i \in 1..Len(locals.pkg_list) :
          AlreadyInstalled(locals.pkg_list[i], locals.listed)

\* C3 as stated: with force_reinstall False, a listing that succeeds and every
\* spec installed at its declared version (or declaring none), installed
\* returns result True, changes {} and does not call npm.install.
C3_SatisfiedReturnsTrue ==
    C3_Case =>
        /\ ret.result = "True"
        /\ ret.changes = EmptyChanges
        /\ InstallCalls = {}

\* C3 amended: in that case installed returns changes {} and does not call
\* npm.install; the result is True when the dry-run flag is off and None when
\* it is on.
C3_SatisfiedNoChange ==
    C3_Case =>
        /\ ret.result = IF args.test THEN "None" ELSE "True"
        /\ ret.changes = EmptyChanges
        /\ InstallCalls = {}
        /\ fault = "none"

C3_Witness ==
    /\ C3_Case
    /\ ~args.test
    /\ Len(locals.pkg_list) = 2
    /\ locals.pkg_list[1] # locals.pkg_list[2]
    /\ ret.result = "True"

C4_Case ==
    /\ op = "installed"
    /\ ~args.test
    /\ args.pkgs.is_none
    /\ ListingSucceeded
    /\ DeclaredVersion(args.name) # <<>>
    /\ \E r \in locals.listed :
          /\ Lower(r.name) = DeclaredName(args.name)
          /\ r.version # DeclaredVersion(args.name)

\* C4: when the single declared spec name@version is installed at another
\* version and the dry-run flag is off, npm.install is called exactly once with
\* pkg equal to the whole declared spec, and a non-empty mapping returned gives
\* result True with changes {old: [], new: [spec]}.
C4_InstallGetsFullSpec ==
    C4_Case =>
        /\ Cardinality(InstallCalls) = 1
        /\ \A i \in InstallCalls : calls[i].kw = "pkg" /\ calls[i].pkg = args.name
        /\ \A i \in InstallCalls :
              calls[i].out = Returns([t |-> "dict", n |-> 1]) =>
                  /\ ret.result = "True"
                  /\ ret.changes = InstallChanges(<<args.name>>)

\* no two specs of the working list name the same package
ConsistentList(pkg_list) ==
    \A i, j \in 1..Len(pkg_list) :
        DeclaredName(pkg_list[i]) = DeclaredName(pkg_list[j]) => i = j

\* C5: after installed, dry-run off and force_reinstall False, has returned
\* result True, the same call made again right away returns result True with
\* changes {} and does not call npm.install.
C5_InstalledIdempotent ==
    [][ ( /\ op = "installed"
          /\ ~args.test
          /\ ~args.force_reinstall
          /\ ConsistentList(locals.pkg_list)
          /\ ret.result = "True"
          /\ op' = "installed"
          /\ args' = args
          /\ calls'[1].out.raised = "none" )
        => ( /\ ret'.result = "True"
             /\ ret'.changes = EmptyChanges
             /\ \A i \in 1..Len(calls') : calls'[i].fn # "npm.install" ) ]_vars

\* what C6 says puts spec in pkgs_to_install, with the name of the spec read
\* as nm
SaidToInstall(spec, nm, listed, force_reinstall) ==
    \/ force_reinstall
    \/ ~\E r \in listed : Lower(r.name) = nm
    \/ /\ DeclaredVersion(spec) # <<>>
       /\ \E r \in listed : Lower(r.name) = nm /\ r.version # DeclaredVersion(spec)

\* C6 as stated: every spec of the working list goes to exactly one of
\* pkgs_to_install and pkgs_satisfied, and to pkgs_to_install exactly when
\* force_reinstall is set, or its lower-cased name is no lower-cased key of the
\* records, or it declares a version other than the recorded one.
C6_ClassifiedByLowerName ==
    (op = "installed" /\ ListingSucceeded) =>
        LET ToInstall(spec) ==
                SaidToInstall(spec, Lower(Partition(spec)[1]), locals.listed,
                              args.force_reinstall)
        IN  /\ locals.pkgs_to_install = SelectSeq(locals.pkg_list, ToInstall)
            /\ Len(locals.pkgs_to_install) + Len(locals.pkgs_satisfied)
                  = Len(locals.pkg_list)

\* C6 amended: the same, the name of a spec being the part before the first
\* '@' with surrounding whitespace stripped, then lower-cased.
C6_ClassifiedByStrippedLowerName ==
    (op = "installed" /\ ListingSucceeded) =>
        LET ToInstall(spec) ==
                SaidToInstall(spec, Lower(Strip(Partition(spec)[1])), locals.listed,
                              args.force_reinstall)
        IN  /\ locals.pkgs_to_install = SelectSeq(locals.pkg_list, ToInstall)
            /\ Len(locals.pkgs_to_install) + Len(locals.pkgs_satisfied)
                  = Len(locals.pkg_list)

C6_Witness ==
    /\ op = "installed"
    /\ ListingSucceeded
    /\ ~args.force_reinstall
    /\ Len(locals.pkgs_to_install) = 1
    /\ Len(locals.pkgs_satisfied) = 1
    /\ \E r \in locals.listed : r.name # Lower(r.name)

\* C7: removed of a name that is no key of the listing returns result True and
\* changes {} and does not call npm.uninstall, dry-run or not.
C7_AbsentNotRemoved ==
    (op = "removed" /\ ListingSucceeded
        /\ ~\E r \in locals.listed : r.name = args.name) =>
        /\ fault = "none"
        /\ ret.result = "True"
        /\ ret.changes = EmptyChanges
        /\ MutatingCalls = {}

C7_Witness ==
    /\ op = "removed"
    /\ ListingSucceeded
    /\ ~args.test
    /\ ~\E r \in locals.listed : r.name = args.name
    /\ \E r \in locals.listed : Lower(r.name) = Lower(args.name)
    /\ ret.result = "True"

C8_Case ==
    /\ op = "installed"
    /\ ~args.test
    /\ Len(calls) = 2
    /\ calls[2].fn = "npm.install"
    /\ calls[2].out.raised = "none"

\* C8: with dry-run off, once npm.install has returned, the result is True with
\* changes {old: [], new: pkgs_to_install} exactly when the value returned is a
\* non-empty list or a non-empty mapping; otherwise the result is False and
\* changes is {}.
C8_SuccessIsNonEmptyListOrDict ==
    C8_Case =>
        LET v == calls[2].out.value
        IN  IF v.t \in {"list", "dict"} /\ v.n > 0
            THEN /\ ret.result = "True"
                 /\ ret.changes = InstallChanges(locals.pkgs_to_install)
            ELSE /\ ret.result = "False"
                 /\ ret.changes = EmptyChanges

C8_Witness ==
    /\ C8_Case
    /\ calls[2].out.value = [t |-> "str", n |-> 1]
    /\ ret.result = "False"

\* C9: an invocation makes at most two capability calls, at most one of them
\* mutating; in installed and removed the listing comes first and the mutating
\* call after it, and none is made when the listing fails.
C9_AtMostTwoCalls ==
    Invoked =>
        /\ Len(calls) <= 2
        /\ Cardinality(MutatingCalls) <= 1
        /\ op \in {"installed", "removed"} =>
              /\ calls # <<>>
              /\ calls[1].fn = "npm.list"
              /\ \A i \in MutatingCalls : i = 2
              /\ calls[1].out.raised # "none" => Len(calls) = 1

C9_Witness ==
    /\ op = "removed"
    /\ Len(calls) = 2
    /\ calls[1].fn = "npm.list"
    /\ calls[2].fn = "npm.uninstall"

\* C10: a record returned with result False has changes {}; and one returned
\* with changes while dry-run is off has result True, exactly one mutating call
\* having been made, which returned without failure.
C10_ChangesMeanSuccess ==
    (Invoked /\ fault = "none") =>
        /\ ret.result = "False" => ret.changes = EmptyChanges
        /\ (ret.changes # EmptyChanges /\ ~args.test) =>
              /\ ret.result = "True"
              /\ Cardinality(MutatingCalls) = 1
              /\ \A i \in MutatingCalls : calls[i].out.raised = "none"

C10_Witness ==
    /\ op = "installed"
    /\ ~args.test
    /\ fault = "none"
    /\ ret.changes # EmptyChanges
    /\ Len(ret.changes.new) = 2

====
